---- MODULE Spec2Model ----
(***************************************************************************)
(* The POS client of src/frontend/src/App.jsx (React state, cart editing,  *)
(* createOrder, charge) together with the order/payment service it talks   *)
(* to.  The service (backend/) is not part of src/; it is modelled from    *)
(* spec.md sections 3-7.  Requests and responses are messages in flight,   *)
(* so every interleaving of the asynchronous fetch calls is a behaviour.   *)
(*                                                                         *)
(* Left out: selectedCategory, which only narrows the menu rows shown      *)
(* ('All' shows every row), and a fetch of createOrder or charge that      *)
(* rejects, which ends the handler before any state is set.                *)
(***************************************************************************)
EXTENDS Integers, Sequences, FiniteSets, TLC

\* ------------------------------------------------------------------ bounds
\* Largest quantity a cart line is driven to by "+ Add" / "+".
MaxQty == 2
\* Number of createOrder() calls (clicks on "Create Order") explored.
MaxOrders == 2
\* The same, in the behaviours that follow the payments of an order.
MaxPaidOrders == 1
\* Number of charge() calls (clicks on "Charge on terminal") explored.
MaxCharges == 2

\* ------------------------------------------------------------- JS values
\* JavaScript null: the initial value of the order and txn state.
Null == [isNull |-> TRUE]

\* The records GET /items supplies: {id, name, category, price, description}.
Menu ==
  << [id |-> 1, name |-> "Coffee", category |-> "Bebidas", price |-> 1500],
     [id |-> 2, name |-> "Casado", category |-> "Platos",  price |-> 3500],
     [id |-> 3, name |-> "Flan",   category |-> "Postres", price |-> 1200] >>

\* A menu of one item, for the behaviours that follow orders and payments.
ShortMenu == SubSeq(Menu, 1, 1)

\* Values the Table input can hold (initially 'Mesa 1'; it can be cleared).
TableInputs == {"Mesa 1", ""}

\* Values the Tip input can hold: "0" is the initial useState(0), then
\* empty, non-numeric, positive and negative text.
TipInputs == {"0", "", "abc", "300", "-5"}

\* Number(v) for the tip values: [nan, val]; Number("") is 0, Number("abc")
\* is NaN.
Number(v) ==
  CASE v = "0"   -> [nan |-> FALSE, val |-> 0]
    [] v = ""    -> [nan |-> FALSE, val |-> 0]
    [] v = "300" -> [nan |-> FALSE, val |-> 300]
    [] v = "-5"  -> [nan |-> FALSE, val |-> 0 - 5]
    [] OTHER     -> [nan |-> TRUE,  val |-> 0]

\* Number(tip)||0 : NaN and 0 are falsy and give 0, any other number
\* (negative ones included) is kept.
NumberOrZero(v) ==
  LET n == Number(v) IN IF n.nan \/ n.val = 0 THEN 0 ELSE n.val

\* JSON.stringify({ order_id: order.id, tip: Number(tip)||0 }): a property
\* whose value is undefined (order.id of an object without id) is omitted.
ChargeBody(o, t) ==
  IF "id" \in DOMAIN o
    THEN [order_id |-> o.id, tip |-> NumberOrZero(t)]
    ELSE [tip |-> NumberOrZero(t)]

\* JSON.stringify({ table, items: selectedItems })
CreateOrderBody(tbl, items) == [table |-> tbl, items |-> items]

VARIABLES
  catalog,        \* service: the menu GET /items answers with (never written)
  menuItems,      \* useState([])      : the loaded menu
  menuPending,    \* the GET /items fetch of the mount effect is in flight
  selectedItems,  \* useState([])      : the cart, a sequence of {name, qty, price}
  table,          \* useState('Mesa 1')
  order,          \* useState(null)    : body of the last create-order response
  tip,            \* useState(0)       : the tip input's value
  txn,            \* useState(null)    : body of the last charge response
  txnFrom,        \* the order object charge() read when it sent the request txn answers
  txnReq,         \* the request body txn answers
  zeroed,         \* the last cart operation took updateItemQuantity's newQty <= 0 branch
  nCreate,        \* createOrder() calls so far
  nCharge,        \* charge() calls so far
  createReq,      \* POST /orders requests in flight
  createResp,     \* POST /orders responses in flight
  chargeReq,      \* POST /payments/charge requests in flight
  chargeResp,     \* POST /payments/charge responses in flight
  orderStore,     \* service: persisted orders, orderStore[i].id = i
  txnStore        \* service: persisted transactions, append-only

vars == << catalog, menuItems, menuPending, selectedItems, table, order, tip, txn, txnFrom,
           txnReq, zeroed, nCreate, nCharge, createReq, createResp, chargeReq,
           chargeResp, orderStore, txnStore >>

client == << menuItems, menuPending, selectedItems, table, order, tip, txn, txnFrom,
             txnReq, zeroed >>
net == << createReq, createResp, chargeReq, chargeResp >>
server == << catalog, orderStore, txnStore >>
calls == << nCreate, nCharge >>

InitWith(menu) ==
  /\ catalog = menu
  /\ menuItems = << >>
  /\ menuPending = TRUE
  /\ selectedItems = << >>
  /\ table = "Mesa 1"
  /\ order = Null
  /\ tip = "0"
  /\ txn = Null
  /\ txnFrom = Null
  /\ txnReq = Null
  /\ zeroed = FALSE
  /\ nCreate = 0
  /\ nCharge = 0
  /\ createReq = {}
  /\ createResp = {}
  /\ chargeReq = {}
  /\ chargeResp = {}
  /\ orderStore = << >>
  /\ txnStore = << >>

\* The state after the first render, the service holding a one-item menu.
Init == InitWith(ShortMenu)

\* The same, the service holding the three-item menu.
InitCart == InitWith(Menu)

\* ------------------------------------------------------------ menu load
\* fetch(`${API}/items`).then(res => res.json()).then(data => setMenuItems(data))
RecvItems ==
  /\ menuPending
  /\ menuPending' = FALSE
  /\ menuItems' = catalog
  /\ UNCHANGED << selectedItems, table, order, tip, txn, txnFrom, txnReq, zeroed,
                  calls, net, server >>

\* .catch(err => console.error('Error loading menu:', err))
RecvItemsError ==
  /\ menuPending
  /\ menuPending' = FALSE
  /\ UNCHANGED << menuItems, selectedItems, table, order, tip, txn, txnFrom, txnReq,
                  zeroed, calls, net, server >>

\* ----------------------------------------------------------------- cart
\* selectedItems.find(item => item.name === name) : the indices holding it
Find(items, name) == { i \in DOMAIN items : items[i].name = name }

\* selectedItems.filter(item => item.name !== itemName)
FilterOut(items, itemName) == SelectSeq(items, LAMBDA it : it.name # itemName)

\* updateItemQuantity with the test written newQty < 0: a line whose
\* quantity reaches 0 is kept.
updateItemQuantity_KeepsZero(items, itemName, newQty) ==
  IF newQty < 0
    THEN FilterOut(items, itemName)
    ELSE [ i \in DOMAIN items |->
             IF items[i].name = itemName THEN [items[i] EXCEPT !.qty = newQty]
                                         ELSE items[i] ]

\* updateItemQuantity(itemName, newQty): the new value of selectedItems
updateItemQuantity(items, itemName, newQty) ==
  IF newQty <= 0
    THEN FilterOut(items, itemName)
    ELSE [ i \in DOMAIN items |->
             IF items[i].name = itemName THEN [items[i] EXCEPT !.qty = newQty]
                                         ELSE items[i] ]

\* addToOrder(menuItem): the new value of selectedItems
addToOrder(items, menuItem) ==
  LET found == Find(items, menuItem.name) IN
  IF found # {}
    THEN LET existingItem == items[CHOOSE i \in found : \A j \in found : i <= j]
         IN updateItemQuantity(items, menuItem.name, existingItem.qty + 1)
    ELSE Append(items, [name |-> menuItem.name, qty |-> 1, price |-> menuItem.price])

\* removeFromOrder(itemName): the new value of selectedItems
removeFromOrder(items, itemName) == FilterOut(items, itemName)

CartUnchanged == UNCHANGED << menuItems, menuPending, table, order, tip, txn, txnFrom,
                              txnReq, calls, net, server >>

\* onClick={() => addToOrder(item)} on a menu row
ClickAdd ==
  \E k \in DOMAIN menuItems :
    /\ selectedItems' = addToOrder(selectedItems, menuItems[k])
    /\ \A i \in DOMAIN selectedItems' : selectedItems'[i].qty <= MaxQty
    /\ zeroed' = FALSE
    /\ CartUnchanged

\* onClick={() => updateItemQuantity(item.name, item.qty + 1)} on a cart row
ClickPlus ==
  \E i \in DOMAIN selectedItems :
    /\ selectedItems[i].qty < MaxQty
    /\ selectedItems' = updateItemQuantity(selectedItems, selectedItems[i].name,
                                           selectedItems[i].qty + 1)
    /\ zeroed' = FALSE
    /\ CartUnchanged

\* onClick={() => updateItemQuantity(item.name, item.qty - 1)} on a cart row
ClickMinus ==
  \E i \in DOMAIN selectedItems :
    /\ selectedItems' = updateItemQuantity(selectedItems, selectedItems[i].name,
                                           selectedItems[i].qty - 1)
    /\ zeroed' = (selectedItems[i].qty - 1 <= 0)
    /\ CartUnchanged

\* onClick={() => removeFromOrder(item.name)} on a cart row
ClickRemove ==
  \E i \in DOMAIN selectedItems :
    /\ selectedItems' = removeFromOrder(selectedItems, selectedItems[i].name)
    /\ zeroed' = FALSE
    /\ CartUnchanged

\* <input value={table} onChange={e=>setTable(e.target.value)} />
SetTable ==
  \E v \in TableInputs :
    /\ v # table
    /\ table' = v
    /\ UNCHANGED << menuItems, menuPending, selectedItems, order, tip, txn, txnFrom,
                    txnReq, zeroed, calls, net, server >>

\* The Payment section, with the tip input and the charge button, is
\* rendered only when order is truthy: {order && ( ... )}.
PaymentShown == order # Null

\* <input type="number" value={tip} onChange={e=>setTip(e.target.value)} />
SetTip ==
  \E v \in TipInputs :
    /\ PaymentShown
    /\ v # tip
    /\ tip' = v
    /\ UNCHANGED << menuItems, menuPending, selectedItems, table, order, txn, txnFrom,
                    txnReq, zeroed, calls, net, server >>

\* ---------------------------------------------------------- create order
\* The "Create Order" button without its disabled attribute.
CreateOrderEnabled_Always(items) == TRUE

\* disabled={selectedItems.length === 0} on the "Create Order" button
CreateOrderEnabled(items) == Len(items) # 0

\* createOrder(), up to the await of fetch: POST /orders is sent with the
\* table and the cart of the render the click happened in.
CreateOrder(limit) ==
  /\ CreateOrderEnabled(selectedItems)
  /\ nCreate < limit
  /\ nCreate' = nCreate + 1
  /\ createReq' = createReq \cup
       { [n |-> nCreate + 1, body |-> CreateOrderBody(table, selectedItems)] }
  /\ UNCHANGED << client, nCharge, createResp, chargeReq, chargeResp, server >>

\* createOrder(), after the awaits: const data = await r.json();
\* setOrder(data); setTxn(null).  The status of the response is not read.
RecvCreateOrder(m) ==
  /\ m \in createResp
  /\ createResp' = createResp \ {m}
  /\ order' = m.body
  /\ txn' = Null
  /\ txnFrom' = Null
  /\ txnReq' = Null
  /\ UNCHANGED << menuItems, menuPending, selectedItems, table, tip, zeroed, calls,
                  createReq, chargeReq, chargeResp, server >>

\* ----------------------------------------------------------------- charge
\* charge(): if(!order) return
ChargeNoOrder ==
  /\ order = Null
  /\ UNCHANGED vars

\* charge(), up to the await of fetch: POST /payments/charge is sent with
\* the id of the held order and the tip.  The button stays enabled while a
\* charge is in flight.
ChargeSend ==
  /\ order # Null
  /\ nCharge < MaxCharges
  /\ nCharge' = nCharge + 1
  /\ chargeReq' = chargeReq \cup
       { [n |-> nCharge + 1, from |-> order, body |-> ChargeBody(order, tip)] }
  /\ UNCHANGED << client, nCreate, createReq, createResp, chargeResp, server >>

\* charge() clearing the held order when the result is not an approval.
RecvCharge_DropsOrder(m) ==
  /\ m \in chargeResp
  /\ chargeResp' = chargeResp \ {m}
  /\ txn' = m.body
  /\ txnFrom' = m.from
  /\ txnReq' = m.req
  /\ order' = IF "status" \in DOMAIN m.body /\ m.body.status = "approved"
                THEN order ELSE Null
  /\ UNCHANGED << menuItems, menuPending, selectedItems, table, tip, zeroed, calls,
                  createReq, createResp, chargeReq, server >>

\* charge(), after the awaits: const data = await r.json(); setTxn(data).
\* The status of the response is not read and data is stored as it came.
RecvCharge(m) ==
  /\ m \in chargeResp
  /\ chargeResp' = chargeResp \ {m}
  /\ txn' = m.body
  /\ txnFrom' = m.from
  /\ txnReq' = m.req
  /\ UNCHANGED << menuItems, menuPending, selectedItems, table, order, tip, zeroed,
                  calls, createReq, createResp, chargeReq, server >>

\* ------------------------------------------------- order/payment service
\* The outcomes of one call of the Terminal Gateway.
GatewayOutcomes == {"approved", "declined", "timeout"}

\* The fields of a Transaction the charge endpoint returns.
TxnFields == {"status", "auth_code", "masked_card", "terminal_ref",
              "amount_charged", "tip"}

\* The body of a 4xx-equivalent outcome (ValidationError, NotFoundError).
ErrorBody(kind) == [detail |-> kind]

\* RECURSIVE sum of quantity * unit_price over the line items.
RECURSIVE subtotal(_)
subtotal(items) ==
  IF items = << >> THEN 0
  ELSE Head(items).qty * Head(items).price + subtotal(Tail(items))

\* create_order's input constraints: a non-empty cart, positive quantities,
\* non-negative unit prices, a non-empty table label.
ValidOrder(body) ==
  /\ Len(body.items) > 0
  /\ \A i \in DOMAIN body.items : body.items[i].qty >= 1 /\ body.items[i].price >= 0
  /\ body.table # ""

\* create_order(table_label, cart_items): [store, body], the order store
\* after the call and the body of the response.
create_order(store, body) ==
  IF ValidOrder(body)
    THEN LET o == [id |-> Len(store) + 1, table |-> body.table, items |-> body.items]
         IN [store |-> Append(store, o), body |-> o]
    ELSE [store |-> store, body |-> ErrorBody("ValidationError")]

\* The transactions recorded for an order.
TxnsOf(txns, oid) == SelectSeq(txns, LAMBDA t : t.order_id = oid)

\* An order's derived payment status is paid when a transaction of it was
\* approved.
Paid(txns, oid) == \E i \in DOMAIN txns : txns[i].order_id = oid /\ txns[i].status = "approved"

\* Terminal Gateway authorize(amount, reference): the raw response of the
\* terminal, or a failure of the call itself.
authorize(amount, reference, outcome) ==
  CASE outcome = "approved" ->
         [failed |-> FALSE, status |-> "approved", auth_code |-> "A1",
          masked_card |-> "4242", terminal_ref |-> reference, sdk_trace |-> amount]
    [] outcome = "declined" ->
         [failed |-> FALSE, status |-> "declined", auth_code |-> "",
          masked_card |-> "4242", terminal_ref |-> reference, sdk_trace |-> amount]
    [] OTHER ->
         [failed |-> TRUE, status |-> "", auth_code |-> "",
          masked_card |-> "", terminal_ref |-> reference, sdk_trace |-> amount]

\* Step 4 of charge: only status, auth_code, masked_card and terminal_ref of
\* the gateway's response are copied; a failed call becomes status=error
\* with a synthetic terminal reference.
Translate(raw, reference) ==
  IF raw.failed
    THEN [status |-> "error", auth_code |-> "", masked_card |-> "0000",
          terminal_ref |-> reference]
    ELSE [status |-> raw.status, auth_code |-> raw.auth_code,
          masked_card |-> raw.masked_card, terminal_ref |-> raw.terminal_ref]

\* charge without the test for an order that is paid already.
charge_Recharges(orders, txns, body, outcome) ==
  IF ~("order_id" \in DOMAIN body) \/ body.tip < 0
    THEN [txns |-> txns, body |-> ErrorBody("ValidationError")]
  ELSE IF body.order_id \notin 1..Len(orders)
    THEN [txns |-> txns, body |-> ErrorBody("NotFoundError")]
  ELSE
    LET amount == subtotal(orders[body.order_id].items) + body.tip
        reference == << body.order_id, Len(TxnsOf(txns, body.order_id)) + 1 >>
        t == Translate(authorize(amount, reference, outcome), reference)
        out == [status |-> t.status, auth_code |-> t.auth_code,
                masked_card |-> t.masked_card, terminal_ref |-> t.terminal_ref,
                amount_charged |-> amount, tip |-> body.tip]
    IN [txns |-> Append(txns, [order_id |-> body.order_id] @@ out), body |-> out]

\* charge(order_id, tip): [txns, body], the transaction store after the call
\* and the body of the response.  Attempts on one order are serialized, so
\* the call is one step; an order that is paid takes no further attempt.
charge(orders, txns, body, outcome) ==
  IF ~("order_id" \in DOMAIN body) \/ body.tip < 0
    THEN [txns |-> txns, body |-> ErrorBody("ValidationError")]
  ELSE IF body.order_id \notin 1..Len(orders)
    THEN [txns |-> txns, body |-> ErrorBody("NotFoundError")]
  ELSE IF Paid(txns, body.order_id)
    THEN [txns |-> txns, body |-> ErrorBody("ValidationError")]
  ELSE
    LET amount == subtotal(orders[body.order_id].items) + body.tip
        reference == << body.order_id, Len(TxnsOf(txns, body.order_id)) + 1 >>
        t == Translate(authorize(amount, reference, outcome), reference)
        out == [status |-> t.status, auth_code |-> t.auth_code,
                masked_card |-> t.masked_card, terminal_ref |-> t.terminal_ref,
                amount_charged |-> amount, tip |-> body.tip]
    IN [txns |-> Append(txns, [order_id |-> body.order_id] @@ out), body |-> out]

\* POST create-order handled by the service.
ServerCreateOrder(m) ==
  /\ m \in createReq
  /\ LET r == create_order(orderStore, m.body) IN
       /\ orderStore' = r.store
       /\ createResp' = createResp \cup { [n |-> m.n, body |-> r.body] }
  /\ createReq' = createReq \ {m}
  /\ UNCHANGED << client, calls, chargeReq, chargeResp, catalog, txnStore >>

\* POST charge handled by the service.
ServerCharge(m) ==
  /\ m \in chargeReq
  /\ \E outcome \in GatewayOutcomes :
       LET r == charge(orderStore, txnStore, m.body, outcome) IN
         /\ txnStore' = r.txns
         /\ chargeResp' = chargeResp \cup
              { [n |-> m.n, from |-> m.from, req |-> m.body, body |-> r.body] }
  /\ chargeReq' = chargeReq \ {m}
  /\ UNCHANGED << client, calls, createReq, createResp, catalog, orderStore >>

\* ------------------------------------------------------------ behaviours
Next ==
  \/ RecvItems
  \/ RecvItemsError
  \/ ClickAdd
  \/ ClickPlus
  \/ ClickMinus
  \/ ClickRemove
  \/ SetTable
  \/ SetTip
  \/ CreateOrder(MaxOrders)
  \/ \E m \in createReq : ServerCreateOrder(m)
  \/ \E m \in createResp : RecvCreateOrder(m)
  \/ ChargeNoOrder
  \/ ChargeSend
  \/ \E m \in chargeReq : ServerCharge(m)
  \/ \E m \in chargeResp : RecvCharge(m)

Spec == Init /\ [][Next]_vars

\* The cart editor alone, on the three-item menu.
NextCart ==
  \/ RecvItems
  \/ RecvItemsError
  \/ ClickAdd
  \/ ClickPlus
  \/ ClickMinus
  \/ ClickRemove

SpecCart == InitCart /\ [][NextCart]_vars

\* Cart, table and order creation: every action but those of the Payment
\* section.
NextOrder ==
  \/ RecvItems
  \/ RecvItemsError
  \/ ClickAdd
  \/ ClickPlus
  \/ ClickMinus
  \/ ClickRemove
  \/ SetTable
  \/ CreateOrder(MaxOrders)
  \/ \E m \in createReq : ServerCreateOrder(m)
  \/ \E m \in createResp : RecvCreateOrder(m)

SpecOrder == Init /\ [][NextOrder]_vars

\* Orders and payments: items are added, the table is edited, orders are
\* created and charged with the tip input left as it is.
NextPay ==
  \/ RecvItems
  \/ RecvItemsError
  \/ ClickAdd
  \/ SetTable
  \/ CreateOrder(MaxPaidOrders)
  \/ \E m \in createReq : ServerCreateOrder(m)
  \/ \E m \in createResp : RecvCreateOrder(m)
  \/ ChargeNoOrder
  \/ ChargeSend
  \/ \E m \in chargeReq : ServerCharge(m)
  \/ \E m \in chargeResp : RecvCharge(m)

SpecPay == Init /\ [][NextPay]_vars

\* --------------------------------------------------------------- claims
\* The charge calls that were sent and whose response the client has not
\* received yet, each with its request body.
PendingCharges ==
  { [n |-> m.n, body |-> m.body] : m \in chargeReq } \cup
  { [n |-> m.n, body |-> m.req] : m \in chargeResp }

\* C1: every charge request in flight carries exactly the two fields
\* order_id and tip.
C1_ChargeBodyIsOrderIdAndTip ==
  \A m \in chargeReq : DOMAIN m.body = {"order_id", "tip"}

\* C2: the transaction result held in txn has no field besides status,
\* auth_code, masked_card, terminal_ref, amount_charged and tip.
C2_TxnOnlyAllowedFields ==
  txn # Null => DOMAIN txn \subseteq TxnFields

\* C3: an order has at most one approved transaction, and no transaction is
\* recorded for it after the approved one (no transition out of paid).
C3_AtMostOneApproved ==
  \A i, j \in DOMAIN txnStore :
    (i < j /\ txnStore[i].order_id = txnStore[j].order_id)
      => txnStore[i].status # "approved"

\* C3 witness: an order is paid and a later charge of the same order was
\* answered without a transaction.
C3_Witness ==
  \E m \in chargeResp :
    /\ "order_id" \in DOMAIN m.req
    /\ Paid(txnStore, m.req.order_id)
    /\ m.body = ErrorBody("ValidationError")
    /\ m.req.tip >= 0

\* C4: no two charge calls for the same order id are pending at once.
C4_OneChargeInFlightPerOrder ==
  \A a, b \in PendingCharges :
    ("order_id" \in DOMAIN a.body /\ "order_id" \in DOMAIN b.body /\ a.n # b.n)
      => a.body.order_id # b.body.order_id

\* C5: every line of the cart, and of every create-order request, has
\* quantity >= 1.
C5_CartQtyAtLeastOne ==
  /\ \A i \in DOMAIN selectedItems : selectedItems[i].qty >= 1
  /\ \A m \in createReq : \A i \in DOMAIN m.body.items : m.body.items[i].qty >= 1

\* C5 witness: a "-" click on a line of quantity 1 has just removed that
\* line, and other lines remain in the cart.
C5_Witness == zeroed /\ selectedItems # << >>

\* C6: every create-order request sent, every order persisted and the order
\* held hold at least one line item.
C6_NoOrderFromEmptyCart ==
  /\ \A m \in createReq : Len(m.body.items) >= 1
  /\ \A i \in DOMAIN orderStore : Len(orderStore[i].items) >= 1
  /\ "items" \in DOMAIN order => Len(order.items) >= 1

\* C6 witness: the cart was emptied after an order was created from it and
\* more createOrder() calls are within the bound.
C6_Witness ==
  /\ selectedItems = << >>
  /\ Len(orderStore) >= 1
  /\ nCreate < MaxOrders

\* C7: a charge with a negative tip is recorded in no transaction and its
\* response is not held in txn.
C7_TipNonNegativeOrRejected ==
  /\ \A i \in DOMAIN txnStore : txnStore[i].tip >= 0
  /\ txn # Null => txnReq.tip >= 0

\* C8: every charge request in flight carries the id of an order that was
\* created.
C8_ChargeOnlyForCreatedOrder ==
  \A m \in chargeReq :
    "order_id" \in DOMAIN m.body /\ m.body.order_id \in 1..Len(orderStore)

\* C9: receiving a declined or error transaction leaves the held order as
\* it was (so charge() passes its guard again), and recording a declined or
\* error transaction leaves its order unpaid.
C9_DeclineKeepsOrderChargeable ==
  [][ /\ \A m \in chargeResp :
           ( /\ chargeResp' = chargeResp \ {m}
             /\ "status" \in DOMAIN m.body
             /\ m.body.status \in {"declined", "error"} )
             => (order' = order /\ order' # Null)
      /\ ( /\ Len(txnStore') = Len(txnStore) + 1
           /\ txnStore'[Len(txnStore')].status \in {"declined", "error"} )
           => ~Paid(txnStore', txnStore'[Len(txnStore')].order_id)
    ]_vars

\* C9 witness: an order was declined or failed first and approved on a
\* later charge, and the approved result is held next to that order.
C9_Witness ==
  /\ \E i, j \in DOMAIN txnStore :
       /\ i < j
       /\ txnStore[i].order_id = txnStore[j].order_id
       /\ txnStore[i].status \in {"declined", "error"}
       /\ txnStore[j].status = "approved"
       /\ "id" \in DOMAIN order
       /\ order.id = txnStore[j].order_id
  /\ "status" \in DOMAIN txn
  /\ txn.status = "approved"

\* C10: a held transaction result answers a charge issued for the order
\* that is held.
C10_TxnBelongsToHeldOrder ==
  txn # Null => txnFrom = order

====
